---- MODULE Spec2Model ----
(***************************************************************************)
(* converge: a signalling relay (socket.io server, `attach`) and the       *)
(* ConvergeClient / ConvergeRemotePeer peer session manager.               *)
(*                                                                         *)
(* SpecRelay drives the relay's handlers with every input a socket can     *)
(* send (any number of joins, any room name, any signalling message).      *)
(* SpecSys is the relay with ConvergeClients on its sockets, the WebRTC    *)
(* transport between them and the application calling the client API.      *)
(***************************************************************************)
EXTENDS Integers, Sequences, FiniteSets, TLC

\* relay connection ids (socket.id): relay-assigned, never reused
Conns == {"c1", "c2", "c3"}

\* room names a socket may send in `join`; a room name is an arbitrary
\* client-chosen string, so it may equal a socket id
RoomNames == {"r1", "c1"}

\* target ids a signalling message may carry: the sockets and an id no socket has
Targets == Conns \cup {"nobody"}

\* how many `join` events the raw sockets send in all
MaxJoins == 3

\* how many offer/answer/candidate events the raw sockets send in all
MaxSignals == 1

SignalKinds == {"offer", "answer", "candidate"}

\* topics the ConvergeClients are constructed with: c1 and c2 share a topic,
\* c3 is constructed with either
Topics == {"r1", "r2"}
TopicChoices(c) == IF c = "c3" THEN Topics ELSE {"r1"}

\* socket ids are interchangeable: the relay sees the clients' joins in this order
Before(d, c) == <<d, c>> \in {<<"c1", "c2">>, <<"c1", "c3">>, <<"c2", "c3">>}

\* bodies the application broadcasts or sends, and presence values it sets
Messages == {"m1"}
PresenceValues == {"v1"}

\* JavaScript's undefined (a presence never set) and JSON's null
Undefined == "undefined"
Null == "null"

\* how many API calls (broadcast, updatePresence, directMessage) the applications make in all
MaxCalls == 1

\* how many terminal connectivity reports the transport makes in all
MaxIceReports == 1

\* how many ICE candidates the transport produces in all
MaxCandidates == 1

VARIABLES
    rooms,               \* relay: Record<string, Socket[]>, room name -> member list
    reverseRoomLookup,   \* relay: Record<string, string>, socket id -> room name
    connected,           \* sockets whose control connection is open
    gone,                \* sockets that have disconnected (ids are not reused)
    inbox,               \* per socket: events the relay emitted to it, not yet handled
    joined,              \* per socket: the room names it has joined (history)
    last,                \* the relay handler that ran last, and its input (history)
    njoins,              \* number of raw join events sent
    nsignals,            \* number of raw signalling events sent
    toRelay,             \* per client: events emitted on its socket, not yet handled by the relay
    handle,              \* per client and peer id: the ConvergeRemotePeer object made for that id
    _peers,              \* per client: the keys of _peers, in insertion order
    _presence,           \* per client: _presence
    emitted,             \* per client: the events it emitted to the application, and errors thrown
    ncalls,              \* number of API calls made
    nice,                \* number of terminal connectivity reports made
    ncand                \* number of ICE candidates produced

relayVars == <<rooms, reverseRoomLookup, connected, gone, inbox, joined>>
rawVars == <<last, njoins, nsignals>>
clientVars == <<toRelay, handle, _peers, _presence, emitted>>
budgetVars == <<ncalls, nice, ncand>>

vars == <<relayVars, rawVars, clientVars, budgetVars>>

----------------------------------------------------------------------------
\* Helpers for JavaScript arrays and objects

\* Array.prototype.indexOf, 1-based; 0 stands for JavaScript's -1
IndexOf(s, x) ==
    IF \E i \in 1..Len(s) : s[i] = x
    THEN CHOOSE i \in 1..Len(s) : s[i] = x /\ \A j \in 1..(i - 1) : s[j] # x
    ELSE 0

\* Array.prototype.splice(start, 1) where start is indexOf's result:
\* a start of -1 counts from the end, so it removes the last element
Splice1(s, i) ==
    LET at == IF i = 0 THEN Len(s) ELSE i
    IN  IF Len(s) = 0 THEN s
        ELSE SubSeq(s, 1, at - 1) \o SubSeq(s, at + 1, Len(s))

\* delete obj[key]
DeleteKey(obj, key) == [k \in (DOMAIN obj) \ {key} |-> obj[k]]

\* obj[key] = value
SetKey(obj, key, value) == [k \in (DOMAIN obj) \cup {key} |-> IF k = key THEN value ELSE obj[k]]

Range(s) == {s[i] : i \in 1..Len(s)}

\* socket.emit: an event sent to a socket that is no longer connected is dropped
Emit(box, alive, to, ev) ==
    IF to \in alive THEN [box EXCEPT ![to] = Append(@, ev)] ELSE box

\* room.forEach(peer => peer.emit(...))
RECURSIVE EmitEach(_, _, _, _)
EmitEach(box, alive, members, ev) ==
    IF Len(members) = 0 THEN box
    ELSE EmitEach(Emit(box, alive, Head(members), ev), alive, Tail(members), ev)

\* the shape of an offer/answer/candidate payload
NoMsg == [sdp |-> "", peerId |-> "", sourcePeerId |-> ""]

\* socket.io events, in one shape: `ids` is the payload of 'peers', `id` the
\* payload of 'peer-disconnected' and the room of 'join', `msg` the payload of
\* 'offer', 'answer' and 'candidate'
PeersEvent(ids) == [type |-> "peers", id |-> "", ids |-> ids, msg |-> NoMsg]
PeerDisconnectedEvent(id) == [type |-> "peer-disconnected", id |-> id, ids |-> <<>>, msg |-> NoMsg]
SignalEvent(kind, msg) == [type |-> kind, id |-> "", ids |-> <<>>, msg |-> msg]
JoinEvent(room) == [type |-> "join", id |-> room, ids |-> <<>>, msg |-> NoMsg]

\* a ConvergeRemotePeer object: `made` once constructed; `dc` is
\* dataChannels['data'] ("none", or the channel's readyState); `local` and
\* `remote` are the descriptions of its RTCPeerConnection; `presence` its
\* last-known presence; `rx` the envelopes in flight on its channel towards it;
\* `ignored` records that it received an envelope it did nothing with
NoHandle == [made |-> FALSE, dc |-> "none", local |-> "none", remote |-> "none",
             presence |-> Undefined, rx |-> <<>>, ignored |-> FALSE]

\* new ConvergeRemotePeer(peerId)
NewHandle == [NoHandle EXCEPT !.made = TRUE]

\* an event the client emits to the application (or an error it throws)
AppEvent(name, peer, data) == [name |-> name, peer |-> peer, data |-> data]

----------------------------------------------------------------------------
\* Relay handlers (attach)

\* a join handler that adds the socket to the room before it answers
OnJoinIncludingJoiner(c, room, box) ==
    LET peers == IF room \in DOMAIN rooms THEN rooms[room] ELSE <<>>
    IN  /\ inbox' = Emit(box, connected, c, PeersEvent(Append(peers, c)))
        /\ rooms' = SetKey(rooms, room, Append(peers, c))
        /\ reverseRoomLookup' = SetKey(reverseRoomLookup, c, room)
        /\ joined' = [joined EXCEPT ![c] = @ \cup {room}]
        /\ UNCHANGED <<connected, gone>>

\* a join handler that answers with the members of every room
OnJoinAllRooms(c, room, box) ==
    LET peers == IF room \in DOMAIN rooms THEN rooms[room] ELSE <<>>
        others == SelectSeq(<<"c1", "c2", "c3">>,
                      LAMBDA d : \E r \in DOMAIN rooms : d \in Range(rooms[r]))
    IN  /\ inbox' = Emit(box, connected, c, PeersEvent(others))
        /\ rooms' = SetKey(rooms, room, Append(peers, c))
        /\ reverseRoomLookup' = SetKey(reverseRoomLookup, c, room)
        /\ joined' = [joined EXCEPT ![c] = @ \cup {room}]
        /\ UNCHANGED <<connected, gone>>

\* socket.on('join'): const peers = rooms[room] || (rooms[room] = []);
\* socket.emit('peers', peers.map(id)); peers.push(socket); reverseRoomLookup[id] = room
OnJoin(c, room, box) ==
    LET peers == IF room \in DOMAIN rooms THEN rooms[room] ELSE <<>>
    IN  /\ inbox' = Emit(box, connected, c, PeersEvent(peers))
        /\ rooms' = SetKey(rooms, room, Append(peers, c))
        /\ reverseRoomLookup' = SetKey(reverseRoomLookup, c, room)
        /\ joined' = [joined EXCEPT ![c] = @ \cup {room}]
        /\ UNCHANGED <<connected, gone>>

\* socket.on('disconnect'): the socket is already closed when the handler runs
OnDisconnect(c, box) ==
    LET alive == connected \ {c}
        hasRoom == /\ c \in DOMAIN reverseRoomLookup
                   /\ reverseRoomLookup[c] \in DOMAIN rooms
    IN  /\ connected' = alive
        /\ gone' = gone \cup {c}
        /\ UNCHANGED <<reverseRoomLookup, joined>>
        /\ IF hasRoom
           THEN LET roomId == reverseRoomLookup[c]
                    room == Splice1(rooms[roomId], IndexOf(rooms[roomId], c))
                    spliced == [rooms EXCEPT ![roomId] = room]
                IN  IF Len(room) = 0
                    THEN /\ rooms' = DeleteKey(spliced, c)
                         /\ inbox' = box
                    ELSE /\ rooms' = spliced
                         /\ inbox' = EmitEach(box, alive, room, PeerDisconnectedEvent(c))
           ELSE /\ rooms' = rooms
                /\ inbox' = box

\* mutant of OnSignal: io.emit(kind, msg), every connected socket is sent the message
OnSignalToAll(kind, msg, box) ==
    /\ inbox' = [d \in Conns |->
                    IF d \in connected THEN Append(box[d], SignalEvent(kind, msg)) ELSE box[d]]
    /\ UNCHANGED <<rooms, reverseRoomLookup, connected, gone, joined>>

\* socket.on('offer' | 'answer' | 'candidate'): io.to(msg.peerId).emit(kind, msg);
\* every socket is alone in the socket.io room named by its own id
OnSignal(kind, msg, box) ==
    /\ inbox' = Emit(box, connected, msg.peerId, SignalEvent(kind, msg))
    /\ UNCHANGED <<rooms, reverseRoomLookup, connected, gone, joined>>

----------------------------------------------------------------------------
\* Raw sockets: the relay under every input. A raw socket has no listeners:
\* what the relay emitted to it is dropped when the next handler runs, so in
\* SpecRelay inbox holds what the last handler emitted.

NoEvents == [c \in Conns |-> <<>>]

\* io.on('connection'): a new socket with a fresh id
Connect(c) ==
    /\ c \notin connected /\ c \notin gone
    /\ connected' = connected \cup {c}
    /\ inbox' = NoEvents
    /\ last' = [op |-> "connection", conn |-> c, room |-> "", msg |-> NoMsg]
    /\ UNCHANGED <<rooms, reverseRoomLookup, gone, joined, njoins, nsignals>>
    /\ UNCHANGED <<clientVars, budgetVars>>

Join(c, room) ==
    /\ c \in connected
    /\ njoins < MaxJoins
    /\ njoins' = njoins + 1
    /\ OnJoin(c, room, NoEvents)
    /\ last' = [op |-> "join", conn |-> c, room |-> room, msg |-> NoMsg]
    /\ UNCHANGED <<nsignals, clientVars, budgetVars>>

Disconnect(c) ==
    /\ c \in connected
    /\ OnDisconnect(c, NoEvents)
    /\ last' = [op |-> "disconnect", conn |-> c, room |-> "", msg |-> NoMsg]
    /\ UNCHANGED <<njoins, nsignals, clientVars, budgetVars>>

Signal(c, kind, target) ==
    /\ c \in connected
    /\ nsignals < MaxSignals
    /\ nsignals' = nsignals + 1
    /\ LET msg == [sdp |-> "sdp", peerId |-> target, sourcePeerId |-> c]
       IN  /\ OnSignal(kind, msg, NoEvents)
           /\ last' = [op |-> kind, conn |-> c, room |-> "", msg |-> msg]
    /\ UNCHANGED <<njoins, clientVars, budgetVars>>

InitRelay ==
    /\ rooms = <<>>
    /\ reverseRoomLookup = <<>>
    /\ connected = {}
    /\ gone = {}
    /\ inbox = [c \in Conns |-> <<>>]
    /\ joined = [c \in Conns |-> {}]
    /\ last = [op |-> "none", conn |-> "", room |-> "", msg |-> NoMsg]
    /\ njoins = 0
    /\ nsignals = 0
    /\ toRelay = [c \in Conns |-> <<>>]
    /\ handle = [c \in Conns |-> [p \in Conns |-> NoHandle]]
    /\ _peers = [c \in Conns |-> <<>>]
    /\ _presence = [c \in Conns |-> Undefined]
    /\ emitted = [c \in Conns |-> <<>>]
    /\ ncalls = 0
    /\ nice = 0
    /\ ncand = 0

NextRelay ==
    \/ \E c \in Conns : Connect(c)
    \/ \E c \in Conns, room \in RoomNames : Join(c, room)
    \/ \E c \in Conns : Disconnect(c)
    \/ \E c \in Conns, kind \in SignalKinds, target \in Targets : Signal(c, kind, target)

SpecRelay == InitRelay /\ [][NextRelay]_vars

----------------------------------------------------------------------------
\* Relay properties (checked under SpecRelay, where inbox holds what the last
\* handler emitted)

\* the ids in a room's member list; a room with no registry entry has none
Members(reg, r) == IF r \in DOMAIN reg THEN Range(reg[r]) ELSE {}

\* how many times event ev is in queue q
Count(q, ev) == Cardinality({i \in 1..Len(q) : q[i] = ev})

\* C1: the `peers` list sent in reply to a join never contains the id of the
\* joining connection, also when the connection joins the same room again.
JoinReplyExcludesJoiner ==
    last.op = "join" =>
        \A i \in 1..Len(inbox[last.conn]) :
            last.conn \notin Range(inbox[last.conn][i].ids)

\* C2: the reply to join(room, c) lists exactly the connections that joined
\* `room` earlier and have not disconnected; the joiner is appended after the
\* list is produced; no other connection is sent an event about the join.
JoinReplyIsLiveMembers ==
    [][njoins' = njoins + 1 =>
        LET c == last'.conn
            r == last'.room
            earlier == {d \in connected \ {c} : r \in joined[d]}
        IN  /\ Len(inbox'[c]) = 1
            /\ inbox'[c][1].type = "peers"
            /\ Range(inbox'[c][1].ids) \ {c} = earlier
            /\ rooms'[r] = Append(inbox'[c][1].ids, c)
            /\ \A d \in Conns \ {c} : inbox'[d] = <<>>]_vars

\* C3: in every reachable relay state each connection is a member of at most
\* one room.
AtMostOneRoom ==
    \A c \in Conns : Cardinality({r \in DOMAIN rooms : c \in Range(rooms[r])}) <= 1

\* C4: when a member of a room with at least one other member disconnects,
\* every remaining (connected) member of that room is sent exactly one
\* peer-disconnected event carrying the departed id, and nobody else is sent one.
DisconnectNotifiesRoomOnce ==
    [][\A c \in connected : c \notin connected' =>
        \A r \in DOMAIN rooms :
            (c \in Range(rooms[r]) /\ Range(rooms[r]) \ {c} # {}) =>
                \A d \in Conns :
                    Count(inbox'[d], PeerDisconnectedEvent(c)) =
                        IF d \in (Range(rooms[r]) \ {c}) \cap connected' THEN 1 ELSE 0]_vars

\* C5: after a disconnect has been processed the room registry holds no entry
\* whose member list is empty.
NoEmptyRoomAfterDisconnect ==
    last.op = "disconnect" => \A r \in DOMAIN rooms : rooms[r] # <<>>

\* C6: once every connection that joined a room has disconnected, the next
\* connection that joins a room of that name receives an empty `peers` list.
JoinAfterLastMemberLeftIsEmpty ==
    [][njoins' = njoins + 1 =>
        LET c == last'.conn
            r == last'.room
            former == {d \in Conns : r \in joined[d]}
        IN  (former # {} /\ former \subseteq gone) =>
                inbox'[c] = <<PeersEvent(<<>>)>>]_vars

\* C7: a disconnect processed for a connection that is in no room (it never
\* joined, or it has already been removed) changes the membership of no room
\* and sends no peer-disconnected event.
DisconnectOfNonMemberIsNoOp ==
    [][\A c \in connected :
        (c \notin connected' /\ \A r \in DOMAIN rooms : c \notin Range(rooms[r])) =>
            /\ \A r \in RoomNames : Members(rooms', r) = Members(rooms, r)
            /\ inbox' = NoEvents]_vars

\* C8: an offer, answer or candidate is delivered with unchanged fields, once,
\* to the connected socket whose id is the message's peerId and to no other
\* socket; when no connected socket has that id nothing is delivered; the
\* relay's registry is unchanged either way.
SignalDeliveredToTargetOnly ==
    [][nsignals' = nsignals + 1 =>
        /\ rooms' = rooms
        /\ reverseRoomLookup' = reverseRoomLookup
        /\ connected' = connected
        /\ \A d \in Conns :
              inbox'[d] = IF d = last'.msg.peerId /\ d \in connected
                          THEN <<SignalEvent(last'.op, last'.msg)>>
                          ELSE <<>>]_vars

\* C8 witness: a signalling message was delivered to its target, another socket
SignalDelivered ==
    /\ last.op \in SignalKinds
    /\ last.msg.peerId \in connected \ {last.conn}
    /\ inbox[last.msg.peerId] = <<SignalEvent(last.op, last.msg)>>

----------------------------------------------------------------------------
\* ConvergeRemotePeer and ConvergeClient: pure parts

\* JSON.parse(JSON.stringify([kind, body])): undefined in an array becomes null
Encode(kind, body) == [kind |-> kind, body |-> IF body = Undefined THEN Null ELSE body]

\* channel.send on the channel of c's object for p: the envelope is in flight
\* to p's object for c (lost when p's page is gone)
ChannelSend(hs, c, p, env) ==
    IF p \in connected /\ hs[p][c].made
    THEN [hs EXCEPT ![p][c].rx = Append(@, env)]
    ELSE hs

\* _sendRaw: '' when the channel takes the message, else the error thrown:
\* no channel object, or channel.send on a channel that is not open
SendError(h) ==
    IF h.dc = "open" THEN ""
    ELSE IF h.dc = "none" THEN "no data channel"
    ELSE "InvalidStateError"

\* broadcastRaw: for (const peer of Object.values(this._peers)) peer._sendRaw(...);
\* the first send that throws ends the loop
RECURSIVE BroadcastRaw(_, _, _, _)
BroadcastRaw(hs, c, order, env) ==
    IF Len(order) = 0 THEN [hs |-> hs, err |-> ""]
    ELSE LET p == Head(order)
             e == SendError(hs[c][p])
         IN  IF e = "" THEN BroadcastRaw(ChannelSend(hs, c, p, env), c, Tail(order), env)
             ELSE [hs |-> hs, err |-> e]

\* what a call adds to the client's log when it throws
Thrown(log, err) == IF err = "" THEN log ELSE Append(log, AppEvent("error", "", err))

\* setupRemotePeer: a new object under a key that has none, else the one there
SetupRemotePeer(hc, order, p) ==
    IF p \in Range(order) THEN [hc |-> hc, order |-> order]
    ELSE [hc |-> [hc EXCEPT ![p] = NewHandle], order |-> Append(order, p)]

\* _connect without its createOffer(): the channel is made and nothing is offered
ConnectPeerNoOffer(h) == [h EXCEPT !.dc = "connecting"]

\* _connect, synchronous part: setupDefaultDataChannel(), then createOffer() is pending
ConnectPeer(h) == [h EXCEPT !.dc = "connecting", !.local = "offer-pending"]

\* handlePeers: for each id, setupRemotePeer(id)._connect()
RECURSIVE HandlePeersLoop(_, _, _)
HandlePeersLoop(hc, order, ids) ==
    IF Len(ids) = 0 THEN [hc |-> hc, order |-> order]
    ELSE LET s == SetupRemotePeer(hc, order, Head(ids))
         IN  HandlePeersLoop([s.hc EXCEPT ![Head(ids)] = ConnectPeer(@)], s.order, Tail(ids))

\* delete this._peers[peerId]
DeletePeer(order, p) == SelectSeq(order, LAMBDA q : q # p)

\* get peers(): Object.keys(this._peers)
peers(c) == _peers[c]

\* getPresence that reads the presence the client itself published
GetPresenceOwn(c, p) ==
    IF p \in Range(_peers[c]) /\ _presence[c] # Undefined
    THEN _presence[c]
    ELSE Null

\* getPresence: this._peers[peerId]?.presence ?? null
GetPresence(c, p) ==
    IF p \in Range(_peers[c]) /\ handle[c][p].presence # Undefined
    THEN handle[c][p].presence
    ELSE Null

\* ProtocolHeading
Kinds == {"p", "b", "d"}

\* a decoder that reports every envelope as a broadcast
MessageEventAsBroadcast(p, env) == <<AppEvent("broadcast", p, env.body)>>

\* a decoder whose last branch takes every remaining kind as a direct message
MessageEventElseDirect(p, env) ==
    IF env.kind = "p" THEN <<AppEvent("peerPresenceChanged", p, env.body)>>
    ELSE IF env.kind = "b" THEN <<AppEvent("broadcast", p, env.body)>>
    ELSE <<AppEvent("directMessage", p, env.body)>>

\* handleDataChannelMessage and the client's listener for what it emits
MessageEvent(p, env) ==
    IF env.kind = "p" THEN <<AppEvent("peerPresenceChanged", p, env.body)>>
    ELSE IF env.kind = "b" THEN <<AppEvent("broadcast", p, env.body)>>
    ELSE IF env.kind = "d" THEN <<AppEvent("directMessage", p, env.body)>>
    ELSE <<>>

----------------------------------------------------------------------------
\* The system: clients on the relay's sockets

\* new ConvergeClient({server, topic}): the socket connects, the client emits
\* 'connected' and the join emitted by the constructor is sent
ClientStart(c, t) ==
    /\ c \notin connected /\ c \notin gone
    /\ \A d \in Conns : Before(d, c) => (joined[d] # {} \/ d \in gone)
    /\ connected' = connected \cup {c}
    /\ toRelay' = [toRelay EXCEPT ![c] = <<JoinEvent(t)>>]
    /\ emitted' = [emitted EXCEPT ![c] = Append(@, AppEvent("connected", c, ""))]
    /\ UNCHANGED <<rooms, reverseRoomLookup, gone, inbox, joined>>
    /\ UNCHANGED <<handle, _peers, _presence, rawVars, budgetVars>>

\* the relay handles the next event of c's socket
RelayHandle(c) ==
    /\ c \in connected
    /\ Len(toRelay[c]) > 0
    /\ toRelay' = [toRelay EXCEPT ![c] = Tail(@)]
    /\ LET ev == Head(toRelay[c])
       IN  IF ev.type = "join"
           THEN OnJoin(c, ev.id, inbox)
           ELSE OnSignal(ev.type, ev.msg, inbox)
    /\ UNCHANGED <<handle, _peers, _presence, emitted, rawVars, budgetVars>>

\* the client's page goes away: its socket closes and the relay's disconnect
\* handler runs; what the socket had in flight is lost, and the client, its
\* peer objects and its listeners are gone with the page
ClientLeave(c) ==
    /\ c \in connected
    /\ OnDisconnect(c, [inbox EXCEPT ![c] = <<>>])
    /\ toRelay' = [toRelay EXCEPT ![c] = <<>>]
    /\ handle' = [handle EXCEPT ![c] = [p \in Conns |-> NoHandle]]
    /\ _peers' = [_peers EXCEPT ![c] = <<>>]
    /\ _presence' = [_presence EXCEPT ![c] = Undefined]
    /\ emitted' = [emitted EXCEPT ![c] = <<>>]
    /\ UNCHANGED <<rawVars, budgetVars>>

\* signalling.on('peers', handlePeers)
HandlePeers(c) ==
    /\ c \in connected
    /\ Len(inbox[c]) > 0 /\ Head(inbox[c]).type = "peers"
    /\ inbox' = [inbox EXCEPT ![c] = Tail(@)]
    /\ LET r == HandlePeersLoop(handle[c], _peers[c], Head(inbox[c]).ids)
       IN  /\ handle' = [handle EXCEPT ![c] = r.hc]
           /\ _peers' = [_peers EXCEPT ![c] = r.order]
    /\ UNCHANGED <<rooms, reverseRoomLookup, connected, gone, joined>>
    /\ UNCHANGED <<toRelay, _presence, emitted, rawVars, budgetVars>>

\* createOffer() resolves: onLocalOffer sets the local description and emits
\* 'offer'; handleLocalOffer sends it to the relay
OfferCreated(c, p) ==
    /\ c \in connected
    /\ handle[c][p].made /\ handle[c][p].local = "offer-pending"
    /\ handle' = [handle EXCEPT ![c][p].local = "offer"]
    /\ toRelay' = [toRelay EXCEPT ![c] =
            Append(@, SignalEvent("offer", [sdp |-> "offer", peerId |-> p, sourcePeerId |-> c]))]
    /\ UNCHANGED <<relayVars, _peers, _presence, emitted, rawVars, budgetVars>>

\* a handleOffer that connects back, as handlePeers does, instead of answering
HandleOfferOffering(c) ==
    /\ c \in connected
    /\ Len(inbox[c]) > 0 /\ Head(inbox[c]).type = "offer"
    /\ inbox' = [inbox EXCEPT ![c] = Tail(@)]
    /\ LET p == Head(inbox[c]).msg.sourcePeerId
           s == SetupRemotePeer(handle[c], _peers[c], p)
       IN  /\ handle' = [handle EXCEPT ![c] = [s.hc EXCEPT ![p] = ConnectPeer(@)]]
           /\ _peers' = [_peers EXCEPT ![c] = s.order]
    /\ UNCHANGED <<rooms, reverseRoomLookup, connected, gone, joined>>
    /\ UNCHANGED <<toRelay, _presence, emitted, rawVars, budgetVars>>

\* signalling.on('offer', handleOffer): setupRemotePeer(sourcePeerId)._handleOffer(msg):
\* the remote description is set and createAnswer() is pending. On an object
\* that has set an offer of its own the browser either rolls that back and
\* takes the remote offer, or rejects it and the object stays as it is.
HandleOffer(c) ==
    /\ c \in connected
    /\ Len(inbox[c]) > 0 /\ Head(inbox[c]).type = "offer"
    /\ inbox' = [inbox EXCEPT ![c] = Tail(@)]
    /\ LET p == Head(inbox[c]).msg.sourcePeerId
           s == SetupRemotePeer(handle[c], _peers[c], p)
           glare == s.hc[p].local = "offer"
       IN  /\ \E taken \in (IF glare THEN {TRUE, FALSE} ELSE {TRUE}) :
                 handle' = [handle EXCEPT ![c] =
                     IF taken
                     THEN [s.hc EXCEPT ![p].remote = "offer", ![p].local = "answer-pending"]
                     ELSE s.hc]
           /\ _peers' = [_peers EXCEPT ![c] = s.order]
    /\ UNCHANGED <<rooms, reverseRoomLookup, connected, gone, joined>>
    /\ UNCHANGED <<toRelay, _presence, emitted, rawVars, budgetVars>>

\* a handleLocalAnswer that writes the two ids the other way round
AnswerCreatedSwapped(c, p) ==
    /\ c \in connected
    /\ handle[c][p].made /\ handle[c][p].local = "answer-pending"
    /\ handle' = [handle EXCEPT ![c][p].local = "answer"]
    /\ toRelay' = [toRelay EXCEPT ![c] =
            Append(@, SignalEvent("answer", [sdp |-> "answer", peerId |-> c, sourcePeerId |-> p]))]
    /\ UNCHANGED <<relayVars, _peers, _presence, emitted, rawVars, budgetVars>>

\* createAnswer() resolves: onLocalAnswer sets the local description and emits
\* 'answer'; handleLocalAnswer sends it to the relay
AnswerCreated(c, p) ==
    /\ c \in connected
    /\ handle[c][p].made /\ handle[c][p].local = "answer-pending"
    /\ handle' = [handle EXCEPT ![c][p].local = "answer"]
    /\ toRelay' = [toRelay EXCEPT ![c] =
            Append(@, SignalEvent("answer", [sdp |-> "answer", peerId |-> p, sourcePeerId |-> c]))]
    /\ UNCHANGED <<relayVars, _peers, _presence, emitted, rawVars, budgetVars>>

\* a handleAnswer that takes the end of the negotiation for the connection
HandleAnswerConnecting(c) ==
    /\ c \in connected
    /\ Len(inbox[c]) > 0 /\ Head(inbox[c]).type = "answer"
    /\ inbox' = [inbox EXCEPT ![c] = Tail(@)]
    /\ LET p == Head(inbox[c]).msg.sourcePeerId
           known == p \in Range(_peers[c])
       IN  /\ handle' = IF known
                        THEN [handle EXCEPT ![c][p].remote = "answer"]
                        ELSE handle
           /\ emitted' = IF known
                         THEN [emitted EXCEPT ![c] = Append(@, AppEvent("peerConnected", p, ""))]
                         ELSE emitted
    /\ UNCHANGED <<rooms, reverseRoomLookup, connected, gone, joined>>
    /\ UNCHANGED <<toRelay, _peers, _presence, rawVars, budgetVars>>

\* a handleAnswer that goes through setupRemotePeer, as handleOffer does
HandleAnswerCreating(c) ==
    /\ c \in connected
    /\ Len(inbox[c]) > 0 /\ Head(inbox[c]).type = "answer"
    /\ inbox' = [inbox EXCEPT ![c] = Tail(@)]
    /\ LET p == Head(inbox[c]).msg.sourcePeerId
           s == SetupRemotePeer(handle[c], _peers[c], p)
       IN  /\ handle' = [handle EXCEPT ![c] = [s.hc EXCEPT ![p].remote = "answer"]]
           /\ _peers' = [_peers EXCEPT ![c] = s.order]
    /\ UNCHANGED <<rooms, reverseRoomLookup, connected, gone, joined>>
    /\ UNCHANGED <<toRelay, _presence, emitted, rawVars, budgetVars>>

\* signalling.on('answer', handleAnswer): if a peer is under the key, _handleAnswer
HandleAnswer(c) ==
    /\ c \in connected
    /\ Len(inbox[c]) > 0 /\ Head(inbox[c]).type = "answer"
    /\ inbox' = [inbox EXCEPT ![c] = Tail(@)]
    /\ LET p == Head(inbox[c]).msg.sourcePeerId
       IN  handle' = IF p \in Range(_peers[c])
                     THEN [handle EXCEPT ![c][p].remote = "answer"]
                     ELSE handle
    /\ UNCHANGED <<rooms, reverseRoomLookup, connected, gone, joined>>
    /\ UNCHANGED <<toRelay, _peers, _presence, emitted, rawVars, budgetVars>>

\* rtc.onicecandidate with a candidate: 'candidate' is emitted and sent to the relay
IceCandidate(c, p) ==
    /\ c \in connected
    /\ ncand < MaxCandidates
    /\ handle[c][p].made /\ handle[c][p].local \in {"offer", "answer"}
    /\ ncand' = ncand + 1
    /\ toRelay' = [toRelay EXCEPT ![c] =
            Append(@, SignalEvent("candidate", [sdp |-> "candidate", peerId |-> p, sourcePeerId |-> c]))]
    /\ UNCHANGED <<relayVars, handle, _peers, _presence, emitted, rawVars, ncalls, nice>>

\* signalling.on('candidate', handleCandidate): addIceCandidate on the peer, if
\* there is one; the transport keeps the candidate to itself
HandleCandidate(c) ==
    /\ c \in connected
    /\ Len(inbox[c]) > 0 /\ Head(inbox[c]).type = "candidate"
    /\ inbox' = [inbox EXCEPT ![c] = Tail(@)]
    /\ UNCHANGED <<rooms, reverseRoomLookup, connected, gone, joined>>
    /\ UNCHANGED <<clientVars, rawVars, budgetVars>>

\* a handlePeerDisconnected that drops every object the client holds
PeerDisconnectedAll(c, p) ==
    /\ _peers' = [_peers EXCEPT ![c] = <<>>]
    /\ emitted' = [emitted EXCEPT ![c] = Append(@, AppEvent("peerDisconnected", p, ""))]

\* handlePeerDisconnected: delete this._peers[peerId]; emit('peerDisconnected', peerId)
PeerDisconnected(c, p) ==
    /\ _peers' = [_peers EXCEPT ![c] = DeletePeer(@, p)]
    /\ emitted' = [emitted EXCEPT ![c] = Append(@, AppEvent("peerDisconnected", p, ""))]

\* signalling.on('peer-disconnected', handlePeerDisconnected)
HandlePeerDisconnected(c) ==
    /\ c \in connected
    /\ Len(inbox[c]) > 0 /\ Head(inbox[c]).type = "peer-disconnected"
    /\ inbox' = [inbox EXCEPT ![c] = Tail(@)]
    /\ PeerDisconnected(c, Head(inbox[c]).id)
    /\ UNCHANGED <<rooms, reverseRoomLookup, connected, gone, joined>>
    /\ UNCHANGED <<toRelay, handle, _presence, rawVars, budgetVars>>

\* RTCPeerConnection.iceConnectionState, as far as the handler tells them apart
IceStates == {"connected", "closed", "failed", "disconnected"}
TerminalIceStates == {"closed", "failed", "disconnected"}

\* a handler that takes only `failed` as the end of the connection
IceReportFailedOnly(c, p, st) ==
    /\ c \in connected
    /\ nice < MaxIceReports
    /\ handle[c][p].made
    /\ nice' = nice + 1
    /\ IF st = "failed"
       THEN PeerDisconnected(c, p)
       ELSE UNCHANGED <<_peers, emitted>>
    /\ UNCHANGED <<relayVars, toRelay, handle, _presence, rawVars, ncalls, ncand>>

\* rtc.oniceconnectionstatechange: with closed, failed or disconnected the
\* object emits 'disconnect' (also when it is no longer in _peers)
IceReport(c, p, st) ==
    /\ c \in connected
    /\ nice < MaxIceReports
    /\ handle[c][p].made
    /\ nice' = nice + 1
    /\ IF st \in TerminalIceStates
       THEN PeerDisconnected(c, p)
       ELSE UNCHANGED <<_peers, emitted>>
    /\ UNCHANGED <<relayVars, toRelay, handle, _presence, rawVars, ncalls, ncand>>

\* rtc.ondatachannel on the answering side, once both descriptions are set on
\* both sides: _handleDataChannel keeps the channel
DataChannelEvent(c, p) ==
    /\ c \in connected /\ p \in connected
    /\ handle[c][p].made /\ handle[c][p].dc = "none" /\ handle[c][p].local = "answer"
    /\ handle[p][c].made /\ handle[p][c].dc # "none" /\ handle[p][c].remote = "answer"
    /\ handle' = [handle EXCEPT ![c][p].dc = "connecting"]
    /\ UNCHANGED <<relayVars, toRelay, _peers, _presence, emitted, rawVars, budgetVars>>

\* the transport is up for c's object for p
Negotiated(c, p) ==
    \/ handle[c][p].local = "answer"
    \/ handle[c][p].local = "offer" /\ handle[c][p].remote = "answer" /\ p \in connected

\* a handlePeerConnect that sends no initial presence
ChannelOpenNoPresence(c, p) ==
    /\ c \in connected
    /\ handle[c][p].made /\ handle[c][p].dc = "connecting" /\ Negotiated(c, p)
    /\ handle' = [handle EXCEPT ![c][p].dc = "open"]
    /\ emitted' = [emitted EXCEPT ![c] = Append(@, AppEvent("peerConnected", p, ""))]
    /\ UNCHANGED <<relayVars, toRelay, _peers, _presence, rawVars, budgetVars>>

\* channel.onopen: handleDataChannelOpen emits 'connect'; handlePeerConnect emits
\* 'peerConnected' and sends the initial presence on this._peers[peerId]
ChannelOpen(c, p) ==
    /\ c \in connected
    /\ handle[c][p].made /\ handle[c][p].dc = "connecting" /\ Negotiated(c, p)
    /\ LET opened == [handle EXCEPT ![c][p].dc = "open"]
           known == p \in Range(_peers[c])
       IN  /\ handle' = IF known
                        THEN ChannelSend(opened, c, p, Encode("p", _presence[c]))
                        ELSE opened
           /\ emitted' = [emitted EXCEPT ![c] =
                   Thrown(Append(@, AppEvent("peerConnected", p, "")),
                          IF known THEN "" ELSE "TypeError")]
    /\ UNCHANGED <<relayVars, toRelay, _peers, _presence, rawVars, budgetVars>>

\* channel.onmessage: handleDataChannelMessage
ChannelMessage(c, p) ==
    /\ c \in connected
    /\ handle[c][p].made /\ handle[c][p].dc = "open" /\ Len(handle[c][p].rx) > 0
    /\ LET env == Head(handle[c][p].rx)
       IN  /\ handle' = [handle EXCEPT
                   ![c][p].rx = Tail(@),
                   ![c][p].presence = IF env.kind = "p" THEN env.body ELSE @,
                   ![c][p].ignored = @ \/ env.kind \notin Kinds]
           /\ emitted' = [emitted EXCEPT ![c] = @ \o MessageEvent(p, env)]
    /\ UNCHANGED <<relayVars, toRelay, _peers, _presence, rawVars, budgetVars>>

\* client.broadcast(message)
Broadcast(c, m) ==
    /\ c \in connected
    /\ ncalls < MaxCalls
    /\ ncalls' = ncalls + 1
    /\ LET r == BroadcastRaw(handle, c, _peers[c], Encode("b", m))
       IN  /\ handle' = r.hs
           /\ emitted' = [emitted EXCEPT ![c] = Thrown(@, r.err)]
    /\ UNCHANGED <<relayVars, toRelay, _peers, _presence, rawVars, nice, ncand>>

\* client.updatePresence(presence)
UpdatePresence(c, v) ==
    /\ c \in connected
    /\ ncalls < MaxCalls
    /\ ncalls' = ncalls + 1
    /\ _presence' = [_presence EXCEPT ![c] = v]
    /\ LET r == BroadcastRaw(handle, c, _peers[c], Encode("p", v))
       IN  /\ handle' = r.hs
           /\ emitted' = [emitted EXCEPT ![c] = Thrown(@, r.err)]
    /\ UNCHANGED <<relayVars, toRelay, _peers, rawVars, nice, ncand>>

\* directMessage that sends on every object the client holds
DirectMessageToAll(c, p, m) ==
    /\ c \in connected
    /\ ncalls < MaxCalls
    /\ ncalls' = ncalls + 1
    /\ LET r == BroadcastRaw(handle, c, _peers[c], Encode("d", m))
       IN  /\ handle' = r.hs
           /\ emitted' = [emitted EXCEPT ![c] = Thrown(@, r.err)]
    /\ UNCHANGED <<relayVars, toRelay, _peers, _presence, rawVars, nice, ncand>>

\* a directMessage that gives up the object whose channel refused the send
DirectMessageDropping(c, p, m) ==
    /\ c \in connected
    /\ ncalls < MaxCalls
    /\ ncalls' = ncalls + 1
    /\ LET err == IF p \notin Range(_peers[c]) THEN "not connected"
                  ELSE SendError(handle[c][p])
       IN  /\ handle' = IF err = "" THEN ChannelSend(handle, c, p, Encode("d", m)) ELSE handle
           /\ emitted' = [emitted EXCEPT ![c] = Thrown(@, err)]
           /\ _peers' = IF err = "" THEN _peers ELSE [_peers EXCEPT ![c] = DeletePeer(@, p)]
    /\ UNCHANGED <<relayVars, toRelay, _presence, rawVars, nice, ncand>>

\* client.directMessage(peerId, message)
DirectMessage(c, p, m) ==
    /\ c \in connected
    /\ ncalls < MaxCalls
    /\ ncalls' = ncalls + 1
    /\ LET err == IF p \notin Range(_peers[c]) THEN "not connected"
                  ELSE SendError(handle[c][p])
       IN  /\ handle' = IF err = "" THEN ChannelSend(handle, c, p, Encode("d", m)) ELSE handle
           /\ emitted' = [emitted EXCEPT ![c] = Thrown(@, err)]
    /\ UNCHANGED <<relayVars, toRelay, _peers, _presence, rawVars, nice, ncand>>

\* Discovery and negotiation: the clients join, signal through the relay and
\* the transport brings the channels up
\* peer.sendMessage(message) on the object c holds or held for p
SendMessage(c, p, m) ==
    /\ c \in connected
    /\ ncalls < MaxCalls
    /\ handle[c][p].made
    /\ ncalls' = ncalls + 1
    /\ LET err == SendError(handle[c][p])
       IN  /\ handle' = IF err = "" THEN ChannelSend(handle, c, p, Encode("m", m)) ELSE handle
           /\ emitted' = [emitted EXCEPT ![c] = Thrown(@, err)]
    /\ UNCHANGED <<relayVars, toRelay, _peers, _presence, rawVars, nice, ncand>>

NextStart == \E c \in Conns : \E t \in TopicChoices(c) : ClientStart(c, t)

NextDeliver ==
    \/ \E c \in Conns : RelayHandle(c)
    \/ \E c \in Conns : HandlePeers(c)
    \/ \E c \in Conns : HandleOffer(c)
    \/ \E c \in Conns : HandleAnswer(c)
    \/ \E c, p \in Conns : OfferCreated(c, p)
    \/ \E c, p \in Conns : AnswerCreated(c, p)
    \/ \E c, p \in Conns : DataChannelEvent(c, p)
    \/ \E c, p \in Conns : ChannelOpen(c, p)
    \/ \E c, p \in Conns : ChannelMessage(c, p)

NextNegotiate == NextStart \/ NextDeliver

\* The application's calls
NextApi ==
    \/ \E c \in Conns, m \in Messages : Broadcast(c, m)
    \/ \E c \in Conns, v \in PresenceValues : UpdatePresence(c, v)
    \/ \E c, p \in Conns, m \in Messages : DirectMessage(c, p, m)

\* Calls on a ConvergeRemotePeer, a class the package exports
NextPeerApi == \E c, p \in Conns, m \in Messages : SendMessage(c, p, m)

\* What the transport and the pages do on their own
NextFaults ==
    \/ \E c \in Conns : ClientLeave(c)
    \/ \E c \in Conns : HandlePeerDisconnected(c)
    \/ \E c, p \in Conns : \E st \in IceStates : IceReport(c, p, st)
    \/ \E c, p \in Conns : IceCandidate(c, p)
    \/ \E c \in Conns : HandleCandidate(c)

Init == InitRelay

\* negotiation alone
SpecNegotiate == Init /\ [][NextNegotiate]_vars

\* fair delivery: the relay handles every event a socket sent it, a client every
\* event the relay sent it, and the transport, whose negotiation succeeds,
\* reports every event it owes; nothing obliges a page to construct a client
FairNegotiate ==
    /\ SpecNegotiate
    /\ \A c \in Conns :
          /\ WF_vars(RelayHandle(c))
          /\ WF_vars(HandlePeers(c))
          /\ WF_vars(HandleOffer(c))
          /\ WF_vars(HandleAnswer(c))
    /\ \A c \in Conns : \A p \in Conns :
          /\ WF_vars(OfferCreated(c, p))
          /\ WF_vars(AnswerCreated(c, p))
          /\ WF_vars(DataChannelEvent(c, p))
          /\ WF_vars(ChannelOpen(c, p))
          /\ WF_vars(ChannelMessage(c, p))

\* negotiation and the application's calls
SpecApi == Init /\ [][NextNegotiate \/ NextApi]_vars

\* two clients in one topic, everything that can happen to them
Pair == {"c1", "c2"}
NextPairStart == \E c \in Pair : \E t \in TopicChoices(c) : ClientStart(c, t)
SpecPair == Init /\ [][NextPairStart \/ NextDeliver \/ NextFaults]_vars

\* two clients in one topic, the calls made on them and the transport's reports
NextReports == \E c, p \in Conns : \E st \in IceStates : IceReport(c, p, st)
SpecPairApi ==
    Init /\ [][NextPairStart \/ NextDeliver \/ NextApi \/ NextPeerApi \/ NextReports]_vars

\* nothing is in flight and every channel that was set up is open
Quiescent ==
    \A c \in Conns :
        /\ toRelay[c] = <<>> /\ inbox[c] = <<>>
        /\ \A p \in Conns :
              handle[c][p].made => (handle[c][p].dc = "open" /\ handle[c][p].rx = <<>>)

\* the applications' calls while the clients arrive one after the other, each
\* once the earlier ones have settled
NextLateStart ==
    \E c \in Conns : \E t \in TopicChoices(c) : (Quiescent /\ ClientStart(c, t))
SpecLateApi == Init /\ [][NextLateStart \/ NextDeliver \/ NextApi]_vars

\* two clients in one topic and an application that calls directMessage and,
\* MaxResends times, calls it again
MaxResends == 1
InitResend ==
    /\ rooms = <<>>
    /\ reverseRoomLookup = <<>>
    /\ connected = {}
    /\ gone = {}
    /\ inbox = [c \in Conns |-> <<>>]
    /\ joined = [c \in Conns |-> {}]
    /\ last = [op |-> "none", conn |-> "", room |-> "", msg |-> NoMsg]
    /\ njoins = 0
    /\ nsignals = 0
    /\ toRelay = [c \in Conns |-> <<>>]
    /\ handle = [c \in Conns |-> [p \in Conns |-> NoHandle]]
    /\ _peers = [c \in Conns |-> <<>>]
    /\ _presence = [c \in Conns |-> Undefined]
    /\ emitted = [c \in Conns |-> <<>>]
    /\ ncalls = 0 - MaxResends
    /\ nice = 0
    /\ ncand = 0
NextSend == \E c, p \in Conns, m \in Messages : DirectMessage(c, p, m)
SpecPairSend == InitResend /\ [][NextPairStart \/ NextDeliver \/ NextSend]_vars

\* the transport's reports while the clients arrive one after the other
SpecLateReports == Init /\ [][NextLateStart \/ NextDeliver \/ NextReports]_vars

\* three clients, the third in either topic, whose pages may go away
NextLeave ==
    \/ \E c \in Conns : ClientLeave(c)
    \/ \E c \in Conns : HandlePeerDisconnected(c)
SpecTopics == Init /\ [][NextStart \/ NextDeliver \/ NextLeave]_vars

\* A topic shared with a socket that is not a ConvergeClient: the relay serves
\* every socket.io client, and this one joins and signals when it likes. What
\* the relay emits to it stays in its inbox unread.
Foreign == {"c3"}

\* io.on('connection') for the foreign socket
ForeignConnect(s) ==
    /\ s \notin connected /\ s \notin gone
    /\ connected' = connected \cup {s}
    /\ UNCHANGED <<rooms, reverseRoomLookup, gone, inbox, joined>>
    /\ UNCHANGED <<rawVars, clientVars, budgetVars>>

\* the foreign socket emits 'join' and the relay handles it
ForeignJoin(s, room) ==
    /\ s \in connected
    /\ njoins < MaxJoins
    /\ njoins' = njoins + 1
    /\ OnJoin(s, room, inbox)
    /\ UNCHANGED <<last, nsignals, clientVars, budgetVars>>

\* the foreign socket emits an offer, answer or candidate of its own for
\* target and the relay handles it
ForeignSignal(s, kind, target) ==
    /\ s \in connected
    /\ nsignals < MaxSignals
    /\ nsignals' = nsignals + 1
    /\ OnSignal(kind, [sdp |-> kind, peerId |-> target, sourcePeerId |-> s], inbox)
    /\ UNCHANGED <<last, njoins, clientVars, budgetVars>>

NextForeign ==
    \/ \E s \in Foreign : ForeignConnect(s)
    \/ \E s \in Foreign : \E room \in Topics : ForeignJoin(s, room)
    \/ \E s \in Foreign : \E kind \in SignalKinds : \E target \in Pair :
            ForeignSignal(s, kind, target)

\* the handlers of the two clients
NextPairDeliver ==
    \/ \E c \in Pair : RelayHandle(c)
    \/ \E c \in Pair : HandlePeers(c)
    \/ \E c \in Pair : HandleOffer(c)
    \/ \E c \in Pair : HandleAnswer(c)
    \/ \E c \in Pair : HandleCandidate(c)
    \/ \E c \in Pair : \E p \in Conns : OfferCreated(c, p)
    \/ \E c \in Pair : \E p \in Conns : AnswerCreated(c, p)
    \/ \E c \in Pair : \E p \in Conns : DataChannelEvent(c, p)
    \/ \E c \in Pair : \E p \in Conns : ChannelOpen(c, p)
    \/ \E c \in Pair : \E p \in Conns : ChannelMessage(c, p)

SpecForeign == Init /\ [][NextPairStart \/ NextPairDeliver \/ NextForeign]_vars

\* everything
SpecSys == Init /\ [][NextNegotiate \/ NextApi \/ NextFaults]_vars

----------------------------------------------------------------------------
\* Properties of the clients

\* how many times c emitted `peerConnected` for d
CountConnected(c, d) == Count(emitted[c], AppEvent("peerConnected", d, ""))

\* the relay has put c and d, two clients, in the same topic
SameTopic(c, d) == c # d /\ joined[c] # {} /\ joined[c] = joined[d]

\* C9: two clients that joined the same topic each eventually emit
\* `peerConnected` for the other's id, and emit it exactly once, under fair
\* delivery of relay and transport events; the later joiner is the initiator.
PeersConnectExactlyOnce ==
    /\ \A c \in Conns : \A d \in Conns :
          SameTopic(c, d) ~> (CountConnected(c, d) = 1)
    /\ [](\A c \in Conns : \A d \in Conns : CountConnected(c, d) <= 1)

\* C9 witness: c2 joined c1's topic later and made the offer, c1 answered, and
\* each has emitted `peerConnected` for the other
BothConnected ==
    /\ SameTopic("c1", "c2")
    /\ handle["c2"]["c1"].local = "offer" /\ handle["c1"]["c2"].local = "answer"
    /\ CountConnected("c1", "c2") = 1 /\ CountConnected("c2", "c1") = 1

\* C10: broadcast(m) puts m on the channel of every peer whose channel is open
\* at the call, whatever other handles the sender holds, so that each of them
\* emits one `broadcast` event with the sender's id and m; a peer whose channel
\* is not open at the call is sent nothing.
BroadcastReachesEveryOpenPeer ==
    [][\A c \in Conns : \A m \in Messages :
        Broadcast(c, m) =>
            \A p \in Range(_peers[c]) :
                handle'[p][c].rx =
                    IF handle[c][p].dc = "open"
                    THEN Append(handle[p][c].rx, Encode("b", m))
                    ELSE handle[p][c].rx]_vars

\* the peers c holds an object for whose channel is not open
Unopened(c) == {p \in Range(_peers[c]) : handle[c][p].dc # "open"}

\* C11: broadcast(m) called while the client holds a handle whose channel has
\* not opened yet completes without raising an error and sends nothing to that
\* handle.
BroadcastSkipsUnopened ==
    [][\A c \in Conns : \A m \in Messages :
        (Broadcast(c, m) /\ Unopened(c) # {}) =>
            /\ emitted'[c] = emitted[c]
            /\ \A p \in Unopened(c) : handle'[p][c].rx = handle[p][c].rx]_vars

\* C12: directMessage(peerId, m) raises an error and sends nothing to anyone
\* when the client holds no handle for peerId; when it holds one, the envelope
\* goes on that handle's channel only (there when the channel is open), and
\* no other peer is sent anything.
DirectMessageToNamedPeerOnly ==
    [][\A c \in Conns : \A p \in Conns : \A m \in Messages :
        DirectMessage(c, p, m) =>
            /\ \A x \in Conns : \A y \in Conns :
                  <<x, y>> # <<p, c>> => handle'[x][y].rx = handle[x][y].rx
            /\ p \notin Range(_peers[c]) =>
                  /\ handle' = handle
                  /\ emitted'[c] = Append(emitted[c], AppEvent("error", "", "not connected"))
            /\ (p \in Range(_peers[c]) /\ handle[c][p].dc = "open") =>
                  /\ handle'[p][c].rx = Append(handle[p][c].rx, Encode("d", m))
                  /\ emitted' = emitted]_vars

\* C12 witness: a client that holds two open handles sent a direct message, and
\* the peer it named, and only that peer, emitted `directMessage`
DirectMessageReceived ==
    \E c \in Conns : \E p \in Conns :
        /\ Cardinality(Range(_peers[c])) = 2
        /\ \A q \in Range(_peers[c]) : handle[c][q].dc = "open"
        /\ Count(emitted[p], AppEvent("directMessage", c, "m1")) = 1
        /\ \A q \in Conns \ {p} : Count(emitted[q], AppEvent("directMessage", c, "m1")) = 0

\* C13: each updatePresence(v) of X made while Y is connected to X reaches Y:
\* the Presence envelope with v is put, in call order, on the channel to Y, so
\* that Y emits peerPresenceChanged(X, v) once per call and in that order and
\* Y's getPresence(X) ends at the last value.
UpdatePresenceReachesConnectedPeer ==
    [][\A c \in Conns : \A v \in PresenceValues :
        UpdatePresence(c, v) =>
            \A p \in Range(_peers[c]) :
                handle[c][p].dc = "open" =>
                    handle'[p][c].rx = Append(handle[p][c].rx, Encode("p", v))]_vars

EventName(kind) ==
    IF kind = "p" THEN "peerPresenceChanged"
    ELSE IF kind = "b" THEN "broadcast"
    ELSE "directMessage"

UnknownKindIsDropped ==
    [][\A c \in Conns : \A p \in Conns :
        (ChannelMessage(c, p) /\ Head(handle[c][p].rx).kind \notin Kinds) =>
            /\ emitted' = emitted
            /\ handle'[c][p].presence = handle[c][p].presence
            /\ _peers' = _peers]_vars

\* C16 witness: c1's object for c2 received an envelope of kind "m" after c2's
\* presence, and c1's log shows nothing but the connection and that presence
UnknownKindReceived ==
    /\ handle["c1"]["c2"].ignored
    /\ "c2" \in Range(_peers["c1"])
    /\ emitted["c1"] = << AppEvent("connected", "c1", ""),
                          AppEvent("peerConnected", "c2", ""),
                          AppEvent("peerPresenceChanged", "c2", Null) >>

\* C17: whatever state a handle the client holds is in, a connectivity report
\* of closed, failed or disconnected removes it from the client's peer set and
\* makes the client emit `peerDisconnected` with that peer's id.
TerminalReportRemovesHandle ==
    [][\A c \in Conns : \A p \in Conns : \A st \in TerminalIceStates :
        (IceReport(c, p, st) /\ p \in Range(_peers[c])) =>
            /\ p \notin Range(_peers'[c])
            /\ emitted'[c] = Append(emitted[c], AppEvent("peerDisconnected", p, ""))]_vars

\* C17 witness: the transport of c1's connected handle for c2, whose page is
\* still there, reported a terminal state: the handle is gone from c1's peer
\* set and `peerDisconnected` for c2 is the last thing c1 emitted
ConnectedHandleRemoved ==
    /\ nice = 1 /\ "c2" \in connected
    /\ handle["c1"]["c2"].dc = "open"
    /\ "c2" \notin Range(_peers["c1"])
    /\ Len(emitted["c1"]) > 0
    /\ emitted["c1"][Len(emitted["c1"])] = AppEvent("peerDisconnected", "c2", "")

\* how many times c emitted `peerDisconnected` for p
CountDisconnected(c, p) == Count(emitted[c], AppEvent("peerDisconnected", p, ""))

\* C18: once a handle has raised its disconnect, further terminal reports for
\* it and a relay peer-disconnected for its id are ignored: the client emits
\* `peerDisconnected` at most once per handle (a client of SpecPair makes at
\* most one handle per peer id).
PeerDisconnectedAtMostOnce ==
    \A c \in Conns : \A p \in Conns : CountDisconnected(c, p) <= 1

\* C19: an Offer from a source id, or a `peers` list naming an id, for which
\* the client already holds a handle creates no second handle and leaves the
\* existing one as it is: no new negotiation step, no further Offer or Answer.
ExistingHandleLeftAlone ==
    [][\A c \in Conns :
        /\ HandleOffer(c) =>
              LET p == Head(inbox[c]).msg.sourcePeerId
              IN  p \in Range(_peers[c]) =>
                    /\ handle'[c][p] = handle[c][p]
                    /\ _peers'[c] = _peers[c]
        /\ HandlePeers(c) =>
              \A p \in Range(Head(inbox[c]).ids) \cap Range(_peers[c]) :
                    /\ handle'[c][p] = handle[c][p]
                    /\ Count(_peers'[c], p) = 1]_vars

\* the peer id the relay event at the head of c's inbox names
NamedPeer(c) ==
    IF Head(inbox[c]).type = "peer-disconnected"
    THEN Head(inbox[c]).id
    ELSE Head(inbox[c]).msg.sourcePeerId

\* c handles an offer, answer, candidate or peer-disconnected event that
\* names a peer id it holds no handle for
UnknownPeerEvent(c) ==
    /\ HandleOffer(c) \/ HandleAnswer(c) \/ HandleCandidate(c) \/ HandlePeerDisconnected(c)
    /\ NamedPeer(c) \notin Range(_peers[c])

\* C20 as stated: an Offer, Answer, Candidate or PeerLeft event that names a
\* peer id the client holds no handle for makes the client create a handle for
\* that id first and then route the event to it.
RelayEventCreatesHandle ==
    [][\A c \in Conns :
        UnknownPeerEvent(c) =>
            /\ handle'[c][NamedPeer(c)].made
            /\ Head(inbox[c]).type # "peer-disconnected" =>
                  NamedPeer(c) \in Range(_peers'[c])]_vars

\* C20 amended: only an Offer that names a peer id the client holds no handle
\* for creates a handle, to which the offer is routed; an Answer or Candidate
\* for such an id is dropped and changes nothing; a PeerLeft for such an id
\* creates no handle either, and the client emits `peerDisconnected`.
OnlyOfferCreatesHandle ==
    [][\A c \in Conns :
        UnknownPeerEvent(c) =>
            LET p == NamedPeer(c)
                type == Head(inbox[c]).type
            IN  /\ type = "offer" =>
                      /\ _peers'[c] = Append(_peers[c], p)
                      /\ handle'[c][p] = [NewHandle EXCEPT !.remote = "offer",
                                                           !.local = "answer-pending"]
                      /\ emitted' = emitted
                /\ type \in {"answer", "candidate"} =>
                      /\ _peers' = _peers /\ handle' = handle /\ emitted' = emitted
                /\ type = "peer-disconnected" =>
                      /\ _peers' = _peers /\ handle' = handle
                      /\ emitted'[c] = Append(emitted[c], AppEvent("peerDisconnected", p, ""))]_vars

\* C20 witness: c2 offered, its handle for c1 was removed by a terminal report,
\* and c1's answer then reached c2 and was dropped: the offer stays unanswered
\* on the removed object and c2 holds no handle for c1
AnswerWithoutHandleDropped ==
    /\ {"c1", "c2"} \subseteq connected
    /\ handle["c1"]["c2"].local = "answer"
    /\ toRelay["c1"] = <<>> /\ inbox["c2"] = <<>>
    /\ handle["c2"]["c1"].local = "offer" /\ handle["c2"]["c1"].remote = "none"
    /\ "c1" \notin Range(_peers["c2"])

\* C21: `peerConnected(p)` is emitted, and p's handle becomes connected, only
\* when the data channel of p's handle reports open: no Offer, Answer or
\* Candidate received or sent and no connectivity report does it.
ConnectedOnlyOnChannelOpen ==
    [][\A c \in Conns : \A p \in Conns :
        (\/ CountConnected(c, p)' > CountConnected(c, p)
         \/ handle[c][p].dc # "open" /\ handle'[c][p].dc = "open") =>
            ChannelOpen(c, p)]_vars

\* C21 witness: the negotiation is over on both sides (offer answered, answer
\* sent) and c2's channel has opened while c1's has not: c2 has emitted
\* `peerConnected` for c1, c1 nothing yet for c2
OneSideConnected ==
    /\ handle["c2"]["c1"].remote = "answer" /\ handle["c2"]["c1"].dc = "open"
    /\ handle["c1"]["c2"].local = "answer" /\ handle["c1"]["c2"].dc # "open"
    /\ CountConnected("c2", "c1") = 1 /\ CountConnected("c1", "c2") = 0

\* C22: when the initiator's handle for a peer becomes connected, the
\* initiator at once puts on that channel exactly one Presence envelope with
\* its presence value of that moment (as JSON writes it), so that the
\* responder emits `peerPresenceChanged` for it with no updatePresence call
\* made after the connection.
InitiatorSendsInitialPresence ==
    [][\A c \in Conns : \A p \in Conns :
        (/\ ChannelOpen(c, p)
         /\ handle[c][p].local = "offer"
         /\ p \in Range(_peers[c])) =>
            /\ handle'[p][c].rx = Append(handle[p][c].rx, Encode("p", _presence[c]))
            /\ emitted'[c] = Append(emitted[c], AppEvent("peerConnected", p, ""))]_vars

\* C22 witness: c2, the initiator, had published v1 before its channel to c1
\* opened; c1 has emitted peerPresenceChanged(c2, v1) once and never the null
\* of a client without presence, so v1 came with the connection
InitialPresenceReceived ==
    /\ handle["c2"]["c1"].local = "offer" /\ handle["c2"]["c1"].dc = "open"
    /\ Count(emitted["c1"], AppEvent("peerPresenceChanged", "c2", "v1")) = 1
    /\ Count(emitted["c1"], AppEvent("peerPresenceChanged", "c2", Null)) = 0

\* a joined some topic before b joined it
JoinedBefore(a, b) ==
    \E r \in DOMAIN rooms :
        /\ IndexOf(rooms[r], a) > 0
        /\ IndexOf(rooms[r], b) > IndexOf(rooms[r], a)

\* C23: of two members of a topic only the later joiner makes a handle on its
\* own join and sends an Offer, one, addressed to the earlier joiner; the
\* earlier joiner makes its handle only when it handles that Offer and sends
\* one Answer; no handle offers or answers a second time.
LaterJoinerOffersOnce ==
    [][\A c \in Conns : \A p \in Conns :
        /\ OfferCreated(c, p) =>
              /\ JoinedBefore(p, c)
              /\ handle[p][c].local \notin {"offer-pending", "offer"}
        /\ AnswerCreated(c, p) =>
              /\ JoinedBefore(c, p)
              /\ handle[p][c].local = "offer"
        /\ (~handle[c][p].made /\ handle'[c][p].made) =>
              \/ HandlePeers(c) /\ JoinedBefore(p, c)
              \/ HandleOffer(c) /\ JoinedBefore(c, p)
                    /\ Head(inbox[c]).msg.sourcePeerId = p
        /\ handle[c][p].local \in {"offer", "answer"} =>
              handle'[c][p].local = handle[c][p].local]_vars

\* C23 witness: c1, c2, c3 joined one topic in that order and every pair has
\* negotiated, the later joiner of each pair with the offer, the earlier one
\* with the answer
AllPairsNegotiated ==
    /\ JoinedBefore("c1", "c2") /\ JoinedBefore("c2", "c3")
    /\ handle["c2"]["c1"].local = "offer" /\ handle["c1"]["c2"].local = "answer"
    /\ handle["c3"]["c1"].local = "offer" /\ handle["c1"]["c3"].local = "answer"
    /\ handle["c3"]["c2"].local = "offer" /\ handle["c2"]["c3"].local = "answer"

\* C24: a terminal transport report for c's object for p leaves every other
\* object of c as it was (in or out of the peer set, same channel and
\* descriptions, same last presence) and leaves c's session with the relay as
\* it was: still connected, same room, nothing sent to or taken from the relay.
FailureOfOneHandleIsolated ==
    [][\A c \in Conns : \A p \in Conns : \A st \in TerminalIceStates :
        IceReport(c, p, st) =>
            /\ \A q \in Conns \ {p} :
                  /\ (q \in Range(_peers'[c])) = (q \in Range(_peers[c]))
                  /\ handle'[c][q] = handle[c][q]
                  /\ GetPresence(c, q)' = GetPresence(c, q)
            /\ c \in connected'
            /\ joined'[c] = joined[c]
            /\ rooms' = rooms /\ reverseRoomLookup' = reverseRoomLookup
            /\ toRelay'[c] = toRelay[c] /\ inbox'[c] = inbox[c]]_vars

\* C24 witness: c1 held open channels to c2 and c3, its object for c2 was
\* reported ended and removed, and its object for c3 is still held and open
OtherHandleSurvives ==
    /\ CountConnected("c1", "c2") = 1 /\ CountDisconnected("c1", "c2") = 1
    /\ "c2" \notin Range(_peers["c1"])
    /\ "c3" \in Range(_peers["c1"]) /\ handle["c1"]["c3"].dc = "open"
    /\ CountDisconnected("c1", "c3") = 0
    /\ "c1" \in connected /\ joined["c1"] # {}

\* C25: directMessage to a peer the client holds whose channel is not open
\* throws and changes nothing else (the object stays in the peer set, every
\* object as it was); directMessage to a peer whose channel is open, after an
\* earlier failure or not, throws nothing and puts the envelope in flight.
FailedSendLeavesHandle ==
    [][\A c \in Conns : \A p \in Conns : \A m \in Messages :
        (DirectMessage(c, p, m) /\ p \in Range(_peers[c])) =>
            IF handle[c][p].dc # "open"
            THEN /\ emitted'[c] = Append(emitted[c], AppEvent("error", "", SendError(handle[c][p])))
                 /\ handle' = handle
                 /\ _peers' = _peers
            ELSE /\ emitted'[c] = emitted[c]
                 /\ handle'[p][c].rx = Append(handle[p][c].rx, Encode("d", m))
                 /\ _peers' = _peers]_vars

\* C25 witness: c2's first directMessage to c1 threw while the channel was
\* being set up, c2 kept its object for c1, and c2's second directMessage,
\* made once the channel had opened, reached c1's application
ResendDelivered ==
    /\ \E i \in 1..Len(emitted["c2"]) :
          emitted["c2"][i] = AppEvent("error", "", "InvalidStateError")
    /\ "c1" \in Range(_peers["c2"]) /\ handle["c2"]["c1"].dc = "open"
    /\ \E i \in 1..Len(emitted["c1"]) :
          emitted["c1"][i] = AppEvent("directMessage", "c2", "m1")

\* C26: client.peers lists exactly the peers whose channel is open and that
\* have not been disconnected: never a peer that is still negotiating.
PeersListsConnectedOnly ==
    \A c \in connected : \A p \in Conns :
        /\ p \in Range(peers(c)) => handle[c][p].dc = "open"
        /\ (handle[c][p].dc = "open" /\ CountDisconnected(c, p) = 0) => p \in Range(peers(c))

\* C27: every peerDisconnected(p) a client emits comes after a peerConnected(p)
\* that no earlier peerDisconnected(p) has used up: at every moment the client
\* has emitted no more peerDisconnected(p) than peerConnected(p).
DisconnectedFollowsConnected ==
    \A c \in Conns : \A p \in Conns : CountDisconnected(c, p) <= CountConnected(c, p)

\* C28: what sendMessage(m) on c's object for p put in flight reaches p alone,
\* and when p's client receives it, it emits a message event (broadcast or
\* directMessage) with the sender's id and m.
SentMessageSurfaces ==
    [][/\ \A c \in Conns : \A p \in Conns : \A m \in Messages :
            SendMessage(c, p, m) =>
                \A d \in Conns : \A q \in Conns :
                    <<d, q>> # <<p, c>> => handle'[d][q].rx = handle[d][q].rx
       /\ \A c \in Conns : \A p \in Conns :
            (ChannelMessage(c, p) /\ Head(handle[c][p].rx).kind = "m") =>
                \E name \in {"broadcast", "directMessage"} :
                    emitted'[c] = Append(emitted[c],
                        AppEvent(name, p, Head(handle[c][p].rx).body))]_vars

\* C29: every Offer, Answer and Candidate a client puts on its relay socket
\* has sourcePeerId equal to the client's own id and peerId equal to the id of
\* the object that produced it (its createOffer, createAnswer or candidate);
\* an Answer goes to the id whose Offer that object took.
SignalsCarryHandleAndOwnId ==
    [][\A c \in Conns :
        (Len(toRelay'[c]) > Len(toRelay[c])
            /\ toRelay'[c][Len(toRelay'[c])].type \in SignalKinds) =>
            LET e == toRelay'[c][Len(toRelay'[c])]
                p == e.msg.peerId
            IN  /\ e.msg.sourcePeerId = c
                /\ p \in Conns /\ handle[c][p].made
                /\ e.type = "offer" => OfferCreated(c, p)
                /\ e.type = "answer" => AnswerCreated(c, p) /\ handle[c][p].remote = "offer"
                /\ e.type = "candidate" => IceCandidate(c, p)]_vars

\* C29 witness: the relay has passed c2, which offered to c1, the Answer that
\* c1's object for c2 produced, and a Candidate of c1 for c2 is on its way
AnswerAddressedToOfferer ==
    /\ handle["c2"]["c1"].local = "offer"
    /\ \E i \in 1..Len(inbox["c2"]) :
          inbox["c2"][i] = SignalEvent("answer",
              [sdp |-> "answer", peerId |-> "c2", sourcePeerId |-> "c1"])
    /\ \E i \in 1..Len(toRelay["c1"]) :
          toRelay["c1"][i] = SignalEvent("candidate",
              [sdp |-> "candidate", peerId |-> "c2", sourcePeerId |-> "c1"])

\* C30: whenever a client processes the channel-open event of one of its
\* objects, it still holds an object under that id: the id is in its peer set.
ChannelOpenHasTarget ==
    [][\A c \in Conns : \A p \in Conns :
        ChannelOpen(c, p) => p \in Range(_peers[c])]_vars

\* what c's application was told about p, or c's objects hold of p
Knows(c, p) ==
    \/ handle[c][p].made
    \/ p \in Range(_peers[c])
    \/ handle[c][p].rx # <<>>
    \/ \E i \in 1..Len(emitted[c]) : emitted[c][i].peer = p

\* C31: with clients that join once and offer only to the ids of their peers
\* list, a client makes an object only for an id that joined its own room:
\* clients of different topics hold no object for each other, have no envelope
\* in flight between them and report nothing of each other.
HandlesOnlyWithinTopic ==
    \A c \in Conns : \A p \in Conns \ {c} :
        Knows(c, p) => joined[c] \cap joined[p] # {}

\* C31 witness: c1 and c2 share r1 and c1 has c2's first envelope, c3 joined r2
\* and has handled the relay's reply, and c3 and the others know nothing of
\* each other
OtherTopicStaysApart ==
    /\ joined["c1"] = {"r1"} /\ joined["c2"] = {"r1"} /\ joined["c3"] = {"r2"}
    /\ Count(emitted["c1"], AppEvent("peerPresenceChanged", "c2", Null)) = 1
    /\ "c3" \in connected /\ inbox["c3"] = <<>> /\ toRelay["c3"] = <<>>
    /\ _peers["c3"] = <<>>
    /\ ~Knows("c1", "c3") /\ ~Knows("c2", "c3")

\* C32: in a system of the relay and clients that each join once, no client
\* holds an object under its own id, and no Offer, Answer or Candidate it has
\* sent or been sent names one id as both target and source.
NoHandleForOwnId ==
    \A c \in Conns :
        /\ ~handle[c][c].made
        /\ c \notin Range(_peers[c])
        /\ \A i \in 1..Len(toRelay[c]) :
              toRelay[c][i].type \in SignalKinds => toRelay[c][i].msg.peerId # c
        /\ \A i \in 1..Len(inbox[c]) :
              inbox[c][i].type \in SignalKinds => inbox[c][i].msg.sourcePeerId # c

\* C32 witness: c3 joined r1 after c1 and c2, made an object for each of them
\* and none for itself, and its two Offers are on their way to the relay
OffersToOthersOnly ==
    /\ _peers["c3"] = <<"c1", "c2">>
    /\ toRelay["c3"] = << SignalEvent("offer", [sdp |-> "offer", peerId |-> "c1", sourcePeerId |-> "c3"]),
                          SignalEvent("offer", [sdp |-> "offer", peerId |-> "c2", sourcePeerId |-> "c3"]) >>

====
